---- MODULE Spec2Model ----
(***************************************************************************)
(* Model of Uefi2.c, the second-stage UEFI loader: UefiMain picks the boot *)
(* policy from the LoadOptions hint, LoadAndStartKernelFromAnyFs locates   *)
(* the boot volume (FindBootFileSystem), reads \boot\Image and, for local  *)
(* boot, \boot\initrd (LoadFileToBuffer), registers the initrd provider    *)
(* (InitrdLoadFile behind EFI_LOAD_FILE2), builds the MemMap device path,  *)
(* and calls LoadImage / StartImage.                                       *)
(*                                                                         *)
(* The firmware is a black box: every boot service call is an action step  *)
(* whose status is drawn from the outcomes the service can produce.  Pool  *)
(* memory is the sequence heap (a pointer is an index, NULL is 0), file    *)
(* protocol handles (volume roots and files) are the sequence handles.     *)
(***************************************************************************)
EXTENDS Integers, Sequences, FiniteSets, TLC

VARIABLES
    pc,            \* position of the single thread of control
    hint,          \* the loader's own loaded image: Li, LoadOptions, LoadOptionsSize
    volumes,       \* SimpleFS handles in enumeration order: the kind of each
    fileLen,       \* sizes of \boot\Image and \boot\initrd on a volume (-1: no file)
    NetBoot, Cmdline, UseInitrd,          \* UefiMain locals
    heap,          \* pool allocations: [tag, state, frees, data]
    handles,       \* EFI_FILE_PROTOCOL instances opened: [vol, path, closes]
    HandleBuffer, Index, Root,            \* FindBootFileSystem locals / RootOut
    lf,            \* LoadFileToBuffer frame: [call, File, FileInfo, InfoSize, Status, Read]
    KernelBuffer, KernelSize, InitrdBuffer, InitrdSize,
    Status,        \* Status of LoadAndStartKernelFromAnyFs (and of its callees)
    mInitrdLf2,    \* the provider context: [LoadFile, InitrdBuffer, InitrdSize]
    InitrdHandle,  \* TRUE once the provider's protocols are installed
    KernelDp,      \* the MemMap device path handed to LoadImage
    KernelHandle,  \* the image LoadImage produced: [loaded, bytes, LoadOptions, LoadOptionsSize]
    exitStatus,    \* what UefiMain returned
    failedAt,      \* the step whose failure made LoadAndStartKernelFromAnyFs return
    trace,         \* the steps of LoadAndStartKernelFromAnyFs entered so far, in order
    q              \* the last InitrdLoadFile call: arguments and results

envVars  == <<hint, volumes, fileLen>>
mainVars == <<NetBoot, Cmdline, UseInitrd>>
findVars == <<HandleBuffer, Index, Root>>
bufVars  == <<KernelBuffer, KernelSize, InitrdBuffer, InitrdSize>>
provVars == <<mInitrdLf2, InitrdHandle>>
imgVars  == <<KernelDp, KernelHandle>>
vars == <<pc, hint, volumes, fileLen, NetBoot, Cmdline, UseInitrd, heap, handles,
          HandleBuffer, Index, Root, lf, KernelBuffer, KernelSize, InitrdBuffer,
          InitrdSize, Status, mInitrdLf2, InitrdHandle, KernelDp, KernelHandle,
          exitStatus, trace, failedAt, q>>

----------------------------------------------------------------------------
(* Bounds of the model. *)

\* most SimpleFS handles the firmware enumerates
MaxHandles == 3
\* largest file size, in bytes, of \boot\Image and \boot\initrd
MaxFileSize == 2
\* most fragments a LoadOptions hint is concatenated from
MaxHintFrags == 2

----------------------------------------------------------------------------
(* Constants of the program and of the UEFI interface. *)

NULL == 0

EFI_SUCCESS           == "EFI_SUCCESS"
EFI_LOAD_ERROR        == "EFI_LOAD_ERROR"
EFI_INVALID_PARAMETER == "EFI_INVALID_PARAMETER"
EFI_UNSUPPORTED       == "EFI_UNSUPPORTED"
EFI_BUFFER_TOO_SMALL  == "EFI_BUFFER_TOO_SMALL"
EFI_DEVICE_ERROR      == "EFI_DEVICE_ERROR"
EFI_OUT_OF_RESOURCES  == "EFI_OUT_OF_RESOURCES"
EFI_NOT_FOUND         == "EFI_NOT_FOUND"
EFI_ABORTED           == "EFI_ABORTED"

EFI_ERROR(s) == s # EFI_SUCCESS

KERNEL_PATH == "\\boot\\Image"
INITRD_PATH == "\\boot\\initrd"
ROOT_PATH   == "\\"

\* CHAR16 strings are sequences of one-character strings ended by NUL
NUL == "NUL"
BOOTOPT_PXE == <<"B", "O", "O", "T", "=", "P", "X", "E", NUL>>

KernelCmdline    == "root=/dev/nvme0n1p1 rw rootwait rootdelay=10 rootfstype=ext4 ..."
KernelCmdlineNfs == "ip=dhcp root=/dev/nfs rw nfsroot=192.168.42.1:/volume1/nfs_root,vers=4,tcp ..."

\* sizeof(CHAR16)
SizeofChar16 == 2

\* content of pool memory that was allocated and not yet written
Uninit == -1

\* device path constants used at lines 429-445
HARDWARE_DEVICE_PATH           == 1
HW_MEMMAP_DP                   == 3
EfiLoaderData                  == 2
END_DEVICE_PATH_TYPE           == 127
END_ENTIRE_DEVICE_PATH_SUBTYPE == 255
\* sizeof(MEMMAP_DEVICE_PATH) and sizeof(EFI_DEVICE_PATH_PROTOCOL), in bytes
SizeofMemMapDevicePath   == 24
SizeofDevicePathProtocol == 4

\* UINTN and EFI_PHYSICAL_ADDRESS are 64 bits wide; the model computes with AddrBits
\* bits, so that the wrap-around of address arithmetic stays within reach
AddrBits == 16
AddrModulus == 2 ^ AddrBits

----------------------------------------------------------------------------
(* Library string functions (BaseLib), computed as the library computes them. *)

RECURSIVE StrLenFrom(_, _)
StrLenFrom(String, i) ==
    IF String[i] = NUL THEN 0 ELSE 1 + StrLenFrom(String, i + 1)

\* number of CHAR16 before the terminating NUL
StrLen(String) == StrLenFrom(String, 1)

RECURSIVE StrMatchLen(_, _, _, _)
\* the inner loop of StrStr: how many characters match from String[i], SearchString[j]
StrMatchLen(String, i, SearchString, j) ==
    IF String[i] = SearchString[j] /\ String[i] # NUL
    THEN 1 + StrMatchLen(String, i + 1, SearchString, j + 1)
    ELSE 0

RECURSIVE StrStrFrom(_, _, _)
StrStrFrom(String, SearchString, i) ==
    IF String[i] = NUL THEN NULL
    ELSE LET n == StrMatchLen(String, i, SearchString, 1) IN
         IF SearchString[1 + n] = NUL THEN i
         ELSE IF String[i + n] = NUL THEN NULL
         ELSE StrStrFrom(String, SearchString, i + 1)

\* position of the first occurrence of SearchString in String, NULL if none
StrStr(String, SearchString) == StrStrFrom(String, SearchString, 1)

----------------------------------------------------------------------------
(* Boot Policy Selector. *)

\* mutant of IsNetworkBoot: the LoadOptionsSize check is dropped
IsNetworkBoot_NoSizeCheck(ImageHandle) ==
    IF ~ImageHandle.Li THEN FALSE
    ELSE IF ImageHandle.LoadOptions.IsNull THEN FALSE
    ELSE StrStr(ImageHandle.LoadOptions.Chars, BOOTOPT_PXE) # NULL

\* ImageHandle is the loader's own image: Li is whether HandleProtocol(LoadedImage)
\* yields the interface, LoadOptions the hint memory, LoadOptionsSize its byte size
IsNetworkBoot(ImageHandle) ==
    IF ~ImageHandle.Li THEN FALSE
    ELSE IF ImageHandle.LoadOptions.IsNull
            \/ ImageHandle.LoadOptionsSize < SizeofChar16 THEN FALSE
    ELSE StrStr(ImageHandle.LoadOptions.Chars, BOOTOPT_PXE) # NULL

\* the command line UefiMain selects
SelectCmdline(netBoot) == IF netBoot THEN KernelCmdlineNfs ELSE KernelCmdline

\* mutant of SelectUseInitrd: the initrd is asked for under either policy
SelectUseInitrd_Always(netBoot) == TRUE

\* whether UefiMain asks for the initrd
SelectUseInitrd(netBoot) == IF netBoot THEN FALSE ELSE TRUE

(* The hints the upstream stage may pass: NUL-terminated CHAR16 strings, their *)
(* texts concatenated from fragments.                                         *)
HintFragments ==
    { <<"B", "O", "O", "T", "=", "P", "X", "E">>,
      <<"B", "O", "O", "T", "=", "F", "S">>,
      <<"B", "O", "O", "T", "=", "P", "X">>,
      <<" ", "e", "x", "t", "r", "a", "=", "1">>,
      <<"B">> }

RECURSIVE HintTexts(_)
HintTexts(n) ==
    IF n = 0 THEN { <<>> }
    ELSE HintTexts(n - 1) \cup { t \o f : t \in HintTexts(n - 1), f \in HintFragments }

NullOptions == [IsNull |-> TRUE, Chars |-> <<NUL>>]

\* a hint whose pointer is set: text t in memory, with a byte size that is that of
\* the text with its terminator, or 0 or 1 (a size below one CHAR16)
TextHints(t) ==
    { [Li |-> li, LoadOptions |-> [IsNull |-> FALSE, Chars |-> t \o <<NUL>>],
       LoadOptionsSize |-> sz] :
         li \in BOOLEAN, sz \in {0, 1, SizeofChar16 * (Len(t) + 1)} }

AllHints ==
    { [Li |-> li, LoadOptions |-> NullOptions, LoadOptionsSize |-> 0] : li \in BOOLEAN }
    \cup UNION { TextHints(t) : t \in HintTexts(MaxHintFrags) }

HintOf(t) ==
    [Li |-> TRUE, LoadOptions |-> [IsNull |-> FALSE, Chars |-> t \o <<NUL>>],
     LoadOptionsSize |-> SizeofChar16 * (Len(t) + 1)]

\* the hints of the full loader runs: "BOOT=FS" and "BOOT=PXE extra=1"
RunHints ==
    { HintOf(<<"B", "O", "O", "T", "=", "F", "S">>),
      HintOf(<<"B", "O", "O", "T", "=", "P", "X", "E">>
             \o <<" ", "e", "x", "t", "r", "a", "=", "1">>) }

----------------------------------------------------------------------------
(* The volumes and their files. *)

\* what the firmware answers on a SimpleFS handle:
\*   "noproto"  HandleProtocol(SimpleFS) fails
\*   "openfail" OpenVolume fails
\*   "nokernel" the volume opens, \boot\Image is not on it
\*   "kernel"   the volume opens and holds \boot\Image
VolumeKinds == {"noproto", "openfail", "nokernel", "kernel"}

VolumeLists == UNION { [1..n -> VolumeKinds] : n \in 0..MaxHandles }

\* the bytes of a file of n bytes at path on volume vol: distinct per volume and path
FileBytes(vol, path, n) ==
    [k \in 1..n |-> (16 * vol + (IF path = INITRD_PATH THEN 8 ELSE 0) + k) % 256]

\* size of the file at path on volume vol, -1 when there is none
FileSizeOn(vol, path) ==
    IF volumes[vol] # "kernel" THEN -1
    ELSE IF path = KERNEL_PATH THEN fileLen.kernel
    ELSE IF path = INITRD_PATH THEN fileLen.initrd
    ELSE -1

----------------------------------------------------------------------------
(* Pool memory and file protocol handles. *)

\* gBS->AllocatePool succeeding: a fresh allocation of size bytes
AllocatePool(h, tag, size) ==
    Append(h, [tag |-> tag, state |-> "allocated", frees |-> 0,
               data |-> [k \in 1..size |-> Uninit]])

\* what a successful AllocatePool of size bytes leaves in *Buffer, the pool being
\* h: a fresh allocation; for 0 bytes the firmware may leave NULL as well
AllocatedPointers(h, size) ==
    IF size = 0 THEN {Len(h) + 1, NULL} ELSE {Len(h) + 1}

\* gBS->FreePool(p); FreePool(NULL) is refused and frees nothing
FreePool(h, p) ==
    IF p = NULL THEN h ELSE [h EXCEPT ![p].state = "freed", ![p].frees = @ + 1]

\* a successful Open / OpenVolume: a new EFI_FILE_PROTOCOL instance
OpenHandle(hs, vol, path) ==
    Append(hs, [vol |-> vol, path |-> path, closes |-> 0])

\* File->Close(File)
CloseHandle(hs, f) == [hs EXCEPT ![f].closes = @ + 1]

IsOpen(f) == handles[f].closes = 0

----------------------------------------------------------------------------
(* Initial state: UefiMain is entered; nothing is allocated, opened or installed. *)

\* Status is the local Status of LoadFileToBuffer, Read what File->Read left in
\* *BufferSize (-1 before Read is called)
NoFrame ==
    [call |-> "none", File |-> NULL, FileInfo |-> NULL, InfoSize |-> 0,
     Status |-> EFI_SUCCESS, Read |-> -1]

ZeroCtx == [LoadFile |-> "NULL", InitrdBuffer |-> NULL, InitrdSize |-> 0]

ZeroDp ==
    [MemMap |-> [Type |-> 0, SubType |-> 0, Length |-> <<0, 0>>, MemoryType |-> 0,
                 StartingAddress |-> 0, EndingAddress |-> 0],
     End |-> [Type |-> 0, SubType |-> 0, Length |-> <<0, 0>>]]

NoImage == [loaded |-> FALSE, bytes |-> <<>>, LoadOptions |-> "", LoadOptionsSize |-> 0]

NoQuery ==
    [called |-> FALSE, HasSize |-> FALSE, HasBuffer |-> FALSE, InSize |-> 0,
     Status |-> EFI_SUCCESS, BufferSize |-> 0, Buffer |-> <<>>, src |-> <<>>]

HasKernelVolume(vs) == \E i \in 1..Len(vs) : vs[i] = "kernel"

\* the file sizes of a run; without a volume holding the kernel there are no files
FileLens(vs) ==
    IF HasKernelVolume(vs)
    THEN [kernel : 0..MaxFileSize, initrd : -1..MaxFileSize]
    ELSE { [kernel |-> 0, initrd |-> -1] }

InitLocals ==
    /\ NetBoot = FALSE /\ Cmdline = "" /\ UseInitrd = FALSE
    /\ heap = <<>> /\ handles = <<>>
    /\ HandleBuffer = NULL /\ Index = 0 /\ Root = NULL
    /\ lf = NoFrame
    /\ KernelBuffer = NULL /\ KernelSize = 0
    /\ InitrdBuffer = NULL /\ InitrdSize = 0
    /\ Status = EFI_SUCCESS
    /\ KernelDp = ZeroDp /\ KernelHandle = NoImage
    /\ exitStatus = "none" /\ failedAt = "none" /\ trace = <<>>
    /\ q = NoQuery

Init ==
    /\ pc = "main"
    /\ hint \in RunHints
    /\ volumes \in VolumeLists
    /\ fileLen \in FileLens(volumes)
    /\ mInitrdLf2 = ZeroCtx /\ InitrdHandle = FALSE
    /\ InitLocals

----------------------------------------------------------------------------
(* UefiMain, lines 487-507: the boot policy. *)

UefiMainSelect ==
    /\ pc = "main"
    /\ NetBoot' = IsNetworkBoot(hint)
    /\ Cmdline' = SelectCmdline(NetBoot')
    /\ UseInitrd' = SelectUseInitrd(NetBoot')
    /\ pc' = "find"
    /\ UNCHANGED <<envVars, heap, handles, findVars, lf, bufVars, Status, provVars,
                   imgVars, exitStatus, trace, failedAt, q>>

----------------------------------------------------------------------------
(* FindBootFileSystem, lines 231-320. *)

\* outcomes of LocateHandleBuffer(ByProtocol, SimpleFS): no handle is EFI_NOT_FOUND
LocateOutcomes ==
    IF Len(volumes) = 0 THEN {EFI_NOT_FOUND} ELSE {EFI_SUCCESS, EFI_OUT_OF_RESOURCES}

\* lines 244-261: *RootOut = NULL, LocateHandleBuffer
FindLocate ==
    /\ pc = "find"
    /\ trace' = Append(trace, "locate")
    /\ \E st \in LocateOutcomes :
         IF EFI_ERROR(st)
         THEN /\ Status' = st
              /\ pc' = "find_ret"
              /\ UNCHANGED <<heap, HandleBuffer, Index>>
         ELSE /\ heap' = AllocatePool(heap, "HandleBuffer", Len(volumes))
              /\ HandleBuffer' = Len(heap) + 1
              /\ Index' = 0
              /\ pc' = "find_loop"
              /\ UNCHANGED Status
    /\ Root' = NULL
    /\ UNCHANGED <<envVars, mainVars, handles, lf, bufVars, provVars, imgVars,
                   exitStatus, failedAt, q>>

\* mutant of ProbeReject: the rejected root is left open
ProbeReject_Leak(hs, vol) == OpenHandle(hs, vol, ROOT_PATH)

\* lines 289-314, a volume without the kernel: OpenVolume gives its root, Open of
\* KERNEL_PATH fails, Root->Close(Root)
ProbeReject(hs, vol) ==
    CloseHandle(OpenHandle(hs, vol, ROOT_PATH), Len(hs) + 1)

\* mutant of ProbeAccept: the probe file is left open
ProbeAccept_NoClose(hs, vol) ==
    OpenHandle(OpenHandle(hs, vol, ROOT_PATH), vol, KERNEL_PATH)

\* lines 289-304, a volume with the kernel: OpenVolume gives its root, Open of
\* KERNEL_PATH gives TestFile, TestFile->Close(TestFile); the root stays open
ProbeAccept(hs, vol) ==
    CloseHandle(OpenHandle(OpenHandle(hs, vol, ROOT_PATH), vol, KERNEL_PATH),
                Len(hs) + 2)

\* lines 263-315: one iteration of the loop, on handle HandleBuffer[Index]
FindProbe ==
    /\ pc = "find_loop"
    /\ Index < Len(volumes)
    /\ LET vol  == Index + 1
           kind == volumes[vol]
       IN  CASE kind \in {"noproto", "openfail"} ->
                  \* lines 284-293: continue
                  /\ Index' = Index + 1
                  /\ UNCHANGED <<heap, handles, Root, Status, pc>>
             [] kind = "nokernel" ->
                  /\ handles' = ProbeReject(handles, vol)
                  /\ Index' = Index + 1
                  /\ UNCHANGED <<heap, Root, Status, pc>>
             [] kind = "kernel" ->
                  \* lines 303-310: *RootOut = Root, FreePool(HandleBuffer), return
                  /\ handles' = ProbeAccept(handles, vol)
                  /\ Root' = Len(handles) + 1
                  /\ heap' = FreePool(heap, HandleBuffer)
                  /\ Status' = EFI_SUCCESS
                  /\ pc' = "find_ret"
                  /\ UNCHANGED Index
    /\ UNCHANGED <<envVars, mainVars, HandleBuffer, lf, bufVars, provVars, imgVars,
                   exitStatus, trace, failedAt, q>>

\* lines 317-319: the loop ran out of handles
FindExhausted ==
    /\ pc = "find_loop"
    /\ Index >= Len(volumes)
    /\ heap' = FreePool(heap, HandleBuffer)
    /\ Status' = EFI_NOT_FOUND
    /\ pc' = "find_ret"
    /\ UNCHANGED <<envVars, mainVars, handles, findVars, lf, bufVars, provVars,
                   imgVars, exitStatus, trace, failedAt, q>>

----------------------------------------------------------------------------
(* LoadFileToBuffer, lines 148-225.  lf.call says which call it is: "kernel" *)
(* (line 376: KERNEL_PATH into KernelBuffer, KernelSize) or "initrd" (line   *)
(* 387: INITRD_PATH into InitrdBuffer, InitrdSize).                          *)

LfPath == IF lf.call = "kernel" THEN KERNEL_PATH ELSE INITRD_PATH

\* the out parameters *Buffer and *BufferSize of the current call
OutBuffer == IF lf.call = "kernel" THEN KernelBuffer ELSE InitrdBuffer
OutSize   == IF lf.call = "kernel" THEN KernelSize ELSE InitrdSize

SetOut(b, n) ==
    IF lf.call = "kernel"
    THEN /\ KernelBuffer' = b /\ KernelSize' = n
         /\ UNCHANGED <<InitrdBuffer, InitrdSize>>
    ELSE /\ InitrdBuffer' = b /\ InitrdSize' = n
         /\ UNCHANGED <<KernelBuffer, KernelSize>>

\* return st to the caller, whose Status receives it
LfReturn(st) == Status' = st /\ pc' = "lf_ret"

\* outcomes of Root->Open(Path): a file that is there opens or fails on the device
OpenOutcomes(vol, path) ==
    IF FileSizeOn(vol, path) < 0 THEN {EFI_NOT_FOUND} ELSE {EFI_SUCCESS, EFI_DEVICE_ERROR}

\* lines 161-178: parameter check, *Buffer = NULL, *BufferSize = 0, Root->Open
LfOpen ==
    /\ pc = "lf_open"
    /\ IF Root = NULL
       THEN /\ LfReturn(EFI_INVALID_PARAMETER)
            /\ UNCHANGED <<handles, lf, bufVars>>
       ELSE /\ SetOut(NULL, 0)
            /\ \E st \in OpenOutcomes(handles[Root].vol, LfPath) :
                 IF EFI_ERROR(st)
                 THEN /\ LfReturn(st)
                      /\ lf' = [lf EXCEPT !.Status = st]
                      /\ UNCHANGED handles
                 ELSE /\ handles' = OpenHandle(handles, handles[Root].vol, LfPath)
                      /\ lf' = [lf EXCEPT !.File = Len(handles) + 1, !.Status = st]
                      /\ pc' = "lf_getinfo_size"
                      /\ UNCHANGED Status
    /\ UNCHANGED <<envVars, mainVars, heap, findVars, provVars, imgVars,
                   exitStatus, trace, failedAt, q>>

\* lines 180-185: GetInfo with no buffer asks for the size of the file info
LfGetInfoSize ==
    /\ pc = "lf_getinfo_size"
    /\ \E st \in {EFI_BUFFER_TOO_SMALL, EFI_DEVICE_ERROR} :
         IF st # EFI_BUFFER_TOO_SMALL
         THEN /\ handles' = CloseHandle(handles, lf.File)
              /\ LfReturn(st)
              /\ lf' = [lf EXCEPT !.Status = st]
         ELSE /\ lf' = [lf EXCEPT !.InfoSize = 1, !.Status = st]
              /\ pc' = "lf_alloc_info"
              /\ UNCHANGED <<handles, Status>>
    /\ UNCHANGED <<envVars, mainVars, heap, findVars, bufVars, provVars, imgVars,
                   exitStatus, trace, failedAt, q>>

\* lines 187-192: AllocatePool(InfoSize) for the file info
LfAllocInfo ==
    /\ pc = "lf_alloc_info"
    /\ \E st \in {EFI_SUCCESS, EFI_OUT_OF_RESOURCES} :
         IF EFI_ERROR(st)
         THEN /\ handles' = CloseHandle(handles, lf.File)
              /\ LfReturn(st)
              /\ lf' = [lf EXCEPT !.Status = st]
              /\ UNCHANGED heap
         ELSE /\ heap' = AllocatePool(heap, "FileInfo", lf.InfoSize)
              /\ lf' = [lf EXCEPT !.FileInfo = Len(heap) + 1, !.Status = st]
              /\ pc' = "lf_getinfo"
              /\ UNCHANGED <<handles, Status>>
    /\ UNCHANGED <<envVars, mainVars, findVars, bufVars, provVars, imgVars,
                   exitStatus, trace, failedAt, q>>

\* lines 194-203: GetInfo fills the file info; *BufferSize = FileSize; FreePool(FileInfo)
LfGetInfo ==
    /\ pc = "lf_getinfo"
    /\ \E st \in {EFI_SUCCESS, EFI_DEVICE_ERROR} :
         /\ lf' = [lf EXCEPT !.Status = st]
         /\ IF EFI_ERROR(st)
            THEN /\ heap' = FreePool(heap, lf.FileInfo)
                 /\ handles' = CloseHandle(handles, lf.File)
                 /\ LfReturn(st)
                 /\ UNCHANGED bufVars
            ELSE LET filled == [heap EXCEPT ![lf.FileInfo].data =
                                   <<FileSizeOn(handles[lf.File].vol, LfPath)>>]
                 IN  /\ SetOut(OutBuffer, filled[lf.FileInfo].data[1])
                     /\ heap' = FreePool(filled, lf.FileInfo)
                     /\ pc' = "lf_alloc_buf"
                     /\ UNCHANGED <<handles, Status>>
    /\ UNCHANGED <<envVars, mainVars, findVars, provVars, imgVars,
                   exitStatus, trace, failedAt, q>>

\* lines 205-210: AllocatePool(*BufferSize) for the file; edk2's allocator leaves
\* *Buffer NULL when it fails.  Only the status is checked, not the pointer.
LfAllocBuffer ==
    /\ pc = "lf_alloc_buf"
    /\ \E st \in {EFI_SUCCESS, EFI_OUT_OF_RESOURCES} :
         /\ lf' = [lf EXCEPT !.Status = st]
         /\ IF EFI_ERROR(st)
            THEN /\ handles' = CloseHandle(handles, lf.File)
                 /\ LfReturn(st)
                 /\ UNCHANGED <<heap, bufVars>>
            ELSE /\ \E b \in AllocatedPointers(heap, OutSize) :
                      /\ heap' = IF b = NULL THEN heap
                                 ELSE AllocatePool(heap, lf.call, OutSize)
                      /\ SetOut(b, OutSize)
                 /\ pc' = "lf_read"
                 /\ UNCHANGED <<handles, Status>>
    /\ UNCHANGED <<envVars, mainVars, findVars, provVars, imgVars,
                   exitStatus, trace, failedAt, q>>

\* File->Read delivering the first n bytes of the file into the buffer
ReadInto(data, bytes, n) ==
    [k \in 1..Len(data) |-> IF k <= n THEN bytes[k] ELSE data[k]]

\* the pool after File->Read delivered n bytes into *Buffer (no memory: no bytes)
ReadIntoBuffer(n) ==
    IF OutBuffer = NULL THEN heap
    ELSE [heap EXCEPT ![OutBuffer].data =
             ReadInto(@, FileBytes(handles[lf.File].vol, LfPath, OutSize), n)]

\* mutant of AfterRead: a failed read returns without freeing the buffer
AfterRead_NoFree(st, n) ==
    IF EFI_ERROR(st)
    THEN /\ heap' = heap
         /\ SetOut(OutBuffer, 0)
         /\ LfReturn(st)
    ELSE /\ heap' = ReadIntoBuffer(n)
         /\ SetOut(OutBuffer, n)
         /\ LfReturn(EFI_SUCCESS)

\* mutant of AfterRead: a read of no bytes is taken for a failure
AfterRead_EmptyIsError(st, n) ==
    IF EFI_ERROR(st) \/ n = 0
    THEN /\ heap' = FreePool(heap, OutBuffer)
         /\ SetOut(NULL, 0)
         /\ LfReturn(IF EFI_ERROR(st) THEN st ELSE EFI_NOT_FOUND)
    ELSE /\ heap' = ReadIntoBuffer(n)
         /\ SetOut(OutBuffer, n)
         /\ LfReturn(EFI_SUCCESS)

\* what LoadFileToBuffer does once Read came back with st and *BufferSize = n:
\* lines 215-224 (the file is closed at line 213 before)
AfterRead(st, n) ==
    IF EFI_ERROR(st)
    THEN /\ heap' = FreePool(heap, OutBuffer)
         /\ SetOut(NULL, 0)
         /\ LfReturn(st)
    ELSE /\ heap' = ReadIntoBuffer(n)
         /\ SetOut(OutBuffer, n)
         /\ LfReturn(EFI_SUCCESS)

\* outcomes of File->Read asked for size bytes: the status and the bytes delivered;
\* a read that succeeds may deliver fewer bytes than were asked for
ReadOutcomes(size) ==
    { <<EFI_DEVICE_ERROR, 0>> } \cup { <<EFI_SUCCESS, n>> : n \in 0..size }

\* lines 212-224: Read, Close, and what follows from the status of Read
LfRead ==
    /\ pc = "lf_read"
    /\ handles' = CloseHandle(handles, lf.File)
    /\ \E r \in ReadOutcomes(OutSize) :
         /\ lf' = [lf EXCEPT !.Status = r[1], !.Read = r[2]]
         /\ AfterRead(r[1], r[2])
    /\ UNCHANGED <<envVars, mainVars, findVars, provVars, imgVars,
                   exitStatus, trace, failedAt, q>>

----------------------------------------------------------------------------
(* LoadAndStartKernelFromAnyFs, lines 348-485. *)

\* the steps in the order of the source, lines 369, 376, 386, 403, 427, 448, 474, 481
StepOrder ==
    <<"locate", "kernel", "ramdisk", "register", "descriptor", "loadimage",
      "cmdline", "start">>

\* return Status to UefiMain from the step that failed
Return(st, step) == Status' = st /\ failedAt' = step /\ pc' = "ret"

\* lines 369-376: the result of FindBootFileSystem; then the kernel load is called
LocateVolumeCheck ==
    /\ pc = "find_ret"
    /\ IF EFI_ERROR(Status) \/ Root = NULL
       THEN /\ Return(Status, "locate")
            /\ UNCHANGED <<lf, trace>>
       ELSE /\ lf' = [NoFrame EXCEPT !.call = "kernel"]
            /\ trace' = Append(trace, "kernel")
            /\ pc' = "lf_open"
            /\ UNCHANGED <<Status, failedAt>>
    /\ UNCHANGED <<envVars, mainVars, heap, handles, findVars, bufVars, provVars,
                   imgVars, exitStatus, q>>

\* mutant of KernelLoadCheck: a failed kernel load closes the root and goes on
KernelLoadCheck_GoesOn ==
    /\ pc = "lf_ret" /\ lf.call = "kernel"
    /\ IF EFI_ERROR(Status)
       THEN handles' = CloseHandle(handles, Root)
       ELSE UNCHANGED handles
    /\ pc' = "initrd"
    /\ UNCHANGED <<envVars, mainVars, heap, findVars, lf, bufVars, Status, provVars,
                   imgVars, exitStatus, trace, failedAt, q>>

\* mutant of KernelLoadCheck: the failure return leaves the root open
KernelLoadCheck_NoClose ==
    /\ pc = "lf_ret" /\ lf.call = "kernel"
    /\ IF EFI_ERROR(Status)
       THEN Return(Status, "kernel")
       ELSE /\ pc' = "initrd"
            /\ UNCHANGED <<Status, failedAt>>
    /\ UNCHANGED <<envVars, mainVars, heap, handles, findVars, lf, bufVars, provVars,
                   imgVars, exitStatus, trace, q>>

\* lines 377-383: the result of loading the kernel
KernelLoadCheck ==
    /\ pc = "lf_ret" /\ lf.call = "kernel"
    /\ IF EFI_ERROR(Status)
       THEN /\ handles' = CloseHandle(handles, Root)
            /\ Return(Status, "kernel")
       ELSE /\ pc' = "initrd"
            /\ UNCHANGED <<handles, Status, failedAt>>
    /\ UNCHANGED <<envVars, mainVars, heap, findVars, lf, bufVars, provVars,
                   imgVars, exitStatus, trace, q>>

\* lines 386-397: the initrd is loaded only when UseInitrd
InitrdDecide ==
    /\ pc = "initrd"
    /\ trace' = Append(trace, "ramdisk")
    /\ IF UseInitrd
       THEN /\ lf' = [NoFrame EXCEPT !.call = "initrd"]
            /\ pc' = "lf_open"
       ELSE /\ pc' = "close_root"
            /\ UNCHANGED lf
    /\ UNCHANGED <<envVars, mainVars, heap, handles, findVars, bufVars, Status,
                   provVars, imgVars, exitStatus, failedAt, q>>

\* mutant of InitrdLoadCheck: the failure branch does not reset InitrdBuffer and
\* InitrdSize
InitrdLoadCheck_NoReset ==
    /\ pc = "lf_ret" /\ lf.call = "initrd"
    /\ pc' = "close_root"
    /\ UNCHANGED <<envVars, mainVars, heap, handles, findVars, lf, bufVars, Status,
                   provVars, imgVars, exitStatus, trace, failedAt, q>>

\* lines 388-394: the result of loading the initrd; a failure is only a warning
InitrdLoadCheck ==
    /\ pc = "lf_ret" /\ lf.call = "initrd"
    /\ IF EFI_ERROR(Status)
       THEN InitrdBuffer' = NULL /\ InitrdSize' = 0
       ELSE UNCHANGED <<InitrdBuffer, InitrdSize>>
    /\ pc' = "close_root"
    /\ UNCHANGED <<envVars, mainVars, heap, handles, findVars, lf, KernelBuffer,
                   KernelSize, Status, provVars, imgVars, exitStatus, trace, failedAt, q>>

\* line 400: Root->Close(Root)
CloseRoot ==
    /\ pc = "close_root"
    /\ handles' = CloseHandle(handles, Root)
    /\ pc' = "register"
    /\ UNCHANGED <<envVars, mainVars, heap, findVars, lf, bufVars, Status, provVars,
                   imgVars, exitStatus, trace, failedAt, q>>

\* the frees of a failure path: FreePool(KernelBuffer); if (InitrdBuffer) FreePool(InitrdBuffer)
FreeBuffers(h) ==
    LET h1 == FreePool(h, KernelBuffer)
    IN  IF InitrdBuffer # NULL THEN FreePool(h1, InitrdBuffer) ELSE h1

\* mutant of RegisterInitrd: the provider is registered whenever there is a buffer
RegisterInitrd_IfBuffer ==
    /\ pc = "register"
    /\ trace' = Append(trace, "register")
    /\ IF InitrdBuffer # NULL
       THEN /\ mInitrdLf2' = [LoadFile |-> "InitrdLoadFile",
                              InitrdBuffer |-> InitrdBuffer,
                              InitrdSize |-> InitrdSize]
            /\ \E st \in {EFI_SUCCESS, EFI_OUT_OF_RESOURCES} :
                 IF EFI_ERROR(st)
                 THEN /\ heap' = FreeBuffers(heap)
                      /\ Return(st, "register")
                      /\ UNCHANGED InitrdHandle
                 ELSE /\ InitrdHandle' = TRUE
                      /\ Status' = st
                      /\ pc' = "build_dp"
                      /\ UNCHANGED <<heap, failedAt>>
       ELSE /\ pc' = "build_dp"
            /\ UNCHANGED <<heap, Status, provVars, failedAt>>
    /\ UNCHANGED <<envVars, mainVars, handles, findVars, lf, bufVars, imgVars,
                   exitStatus, q>>

\* lines 403-424: fill the provider context and install the provider's protocols
RegisterInitrd ==
    /\ pc = "register"
    /\ trace' = Append(trace, "register")
    /\ IF InitrdSize > 0
       THEN /\ mInitrdLf2' = [LoadFile |-> "InitrdLoadFile",
                              InitrdBuffer |-> InitrdBuffer,
                              InitrdSize |-> InitrdSize]
            /\ \E st \in {EFI_SUCCESS, EFI_OUT_OF_RESOURCES} :
                 IF EFI_ERROR(st)
                 THEN /\ heap' = FreeBuffers(heap)
                      /\ Return(st, "register")
                      /\ UNCHANGED InitrdHandle
                 ELSE /\ InitrdHandle' = TRUE
                      /\ Status' = st
                      /\ pc' = "build_dp"
                      /\ UNCHANGED <<heap, failedAt>>
       ELSE /\ pc' = "build_dp"
            /\ UNCHANGED <<heap, Status, provVars, failedAt>>
    /\ UNCHANGED <<envVars, mainVars, handles, findVars, lf, bufVars, imgVars,
                   exitStatus, q>>

\* pool allocations lie PoolStride bytes apart
PoolStride == 2048

\* (UINTN)p of a pool pointer; NULL is address 0
PoolAddress(p) == IF p = NULL THEN 0 ELSE (PoolStride * p) % AddrModulus

\* mutant of MemMapDevicePath: the ending address is the address after the buffer
MemMapDevicePath_EndPastBuffer(a, n) ==
    [MemMap |-> [Type |-> HARDWARE_DEVICE_PATH,
                 SubType |-> HW_MEMMAP_DP,
                 Length |-> <<SizeofMemMapDevicePath % 256,
                              (SizeofMemMapDevicePath \div 256) % 256>>,
                 MemoryType |-> EfiLoaderData,
                 StartingAddress |-> a,
                 EndingAddress |-> (a + n) % AddrModulus],
     End |-> [Type |-> END_DEVICE_PATH_TYPE,
              SubType |-> END_ENTIRE_DEVICE_PATH_SUBTYPE,
              Length |-> <<SizeofDevicePathProtocol % 256, 0>>]]

\* mutant of MemMapDevicePath: an empty buffer gets an empty range at its start
MemMapDevicePath_EmptyClamped(a, n) ==
    [MemMap |-> [Type |-> HARDWARE_DEVICE_PATH,
                 SubType |-> HW_MEMMAP_DP,
                 Length |-> <<SizeofMemMapDevicePath % 256,
                              (SizeofMemMapDevicePath \div 256) % 256>>,
                 MemoryType |-> EfiLoaderData,
                 StartingAddress |-> a,
                 EndingAddress |-> IF n = 0 THEN a
                                   ELSE (a + ((n - 1) % AddrModulus)) % AddrModulus],
     End |-> [Type |-> END_DEVICE_PATH_TYPE,
              SubType |-> END_ENTIRE_DEVICE_PATH_SUBTYPE,
              Length |-> <<SizeofDevicePathProtocol % 256, 0>>]]

\* lines 427-445: the MemMap device path for a buffer at address a of size n
MemMapDevicePath(a, n) ==
    [MemMap |-> [Type |-> HARDWARE_DEVICE_PATH,
                 SubType |-> HW_MEMMAP_DP,
                 Length |-> <<SizeofMemMapDevicePath % 256,
                              (SizeofMemMapDevicePath \div 256) % 256>>,
                 MemoryType |-> EfiLoaderData,
                 StartingAddress |-> a,
                 EndingAddress |-> (a + ((n - 1) % AddrModulus)) % AddrModulus],
     End |-> [Type |-> END_DEVICE_PATH_TYPE,
              SubType |-> END_ENTIRE_DEVICE_PATH_SUBTYPE,
              Length |-> <<SizeofDevicePathProtocol % 256, 0>>]]

BuildKernelDp ==
    /\ pc = "build_dp"
    /\ trace' = Append(trace, "descriptor")
    /\ KernelDp' = MemMapDevicePath(PoolAddress(KernelBuffer), KernelSize)
    /\ pc' = "load_image"
    /\ UNCHANGED <<envVars, mainVars, heap, handles, findVars, lf, bufVars, Status,
                   provVars, KernelHandle, exitStatus, failedAt, q>>

\* outcomes of gBS->LoadImage on the buffer: an empty buffer is no image
LoadImageOutcomes ==
    IF KernelSize = 0 THEN {EFI_LOAD_ERROR} ELSE {EFI_SUCCESS, EFI_LOAD_ERROR}

\* mutant of LoadImage: the failure return empties the provider context
LoadImage_ClearsCtx ==
    /\ pc = "load_image"
    /\ trace' = Append(trace, "loadimage")
    /\ \E st \in LoadImageOutcomes :
         IF EFI_ERROR(st)
         THEN /\ heap' = FreeBuffers(heap)
              /\ mInitrdLf2' = [mInitrdLf2 EXCEPT !.InitrdBuffer = NULL, !.InitrdSize = 0]
              /\ Return(st, "loadimage")
              /\ UNCHANGED KernelHandle
         ELSE /\ KernelHandle' = [NoImage EXCEPT
                    !.loaded = TRUE,
                    !.bytes = SubSeq(heap[KernelBuffer].data, 1, KernelSize)]
              /\ Status' = st
              /\ pc' = "loaded_image"
              /\ UNCHANGED <<heap, failedAt, mInitrdLf2>>
    /\ UNCHANGED <<envVars, mainVars, handles, findVars, lf, bufVars, InitrdHandle,
                   KernelDp, exitStatus, q>>

\* lines 448-461
LoadImage ==
    /\ pc = "load_image"
    /\ trace' = Append(trace, "loadimage")
    /\ \E st \in LoadImageOutcomes :
         IF EFI_ERROR(st)
         THEN /\ heap' = FreeBuffers(heap)
              /\ Return(st, "loadimage")
              /\ UNCHANGED KernelHandle
         ELSE /\ KernelHandle' = [NoImage EXCEPT
                    !.loaded = TRUE,
                    !.bytes = SubSeq(heap[KernelBuffer].data, 1, KernelSize)]
              /\ Status' = st
              /\ pc' = "loaded_image"
              /\ UNCHANGED <<heap, failedAt>>
    /\ UNCHANGED <<envVars, mainVars, handles, findVars, lf, bufVars, provVars,
                   KernelDp, exitStatus, q>>

\* lines 464-472: HandleProtocol(KernelHandle, LoadedImage)
GetKernelLoadedImage ==
    /\ pc = "loaded_image"
    /\ \E st \in {EFI_SUCCESS, EFI_UNSUPPORTED} :
         IF EFI_ERROR(st)
         THEN Return(st, "loadedimage")
         ELSE /\ Status' = st
              /\ pc' = "set_cmdline"
              /\ UNCHANGED failedAt
    /\ UNCHANGED <<envVars, mainVars, heap, handles, findVars, lf, bufVars, provVars,
                   imgVars, exitStatus, trace, q>>

\* lines 474-475: the command line becomes the kernel image's LoadOptions
SetCmdline ==
    /\ pc = "set_cmdline"
    /\ trace' = Append(trace, "cmdline")
    /\ KernelHandle' = [KernelHandle EXCEPT
           !.LoadOptions = Cmdline,
           !.LoadOptionsSize = (Len(Cmdline) + 1) * SizeofChar16]
    /\ pc' = "start_image"
    /\ UNCHANGED <<envVars, mainVars, heap, handles, findVars, lf, bufVars, Status,
                   provVars, KernelDp, exitStatus, failedAt, q>>

\* line 481: gBS->StartImage passes control to the kernel image
StartImage ==
    /\ pc = "start_image"
    /\ trace' = Append(trace, "start")
    /\ pc' = "in_kernel"
    /\ UNCHANGED <<envVars, mainVars, heap, handles, findVars, lf, bufVars, Status,
                   provVars, imgVars, exitStatus, failedAt, q>>

\* lines 481-484: StartImage returns, with whatever status the image exited with
KernelReturns ==
    /\ pc = "in_kernel"
    /\ \E st \in {EFI_SUCCESS, EFI_LOAD_ERROR, EFI_ABORTED} : Return(st, "start")
    /\ UNCHANGED <<envVars, mainVars, heap, handles, findVars, lf, bufVars, provVars,
                   imgVars, exitStatus, trace, q>>

\* the kernel takes the machine over; StartImage never returns
KernelTakesOver ==
    /\ pc = "in_kernel"
    /\ pc' = "booted"
    /\ UNCHANGED <<envVars, mainVars, heap, handles, findVars, lf, bufVars, Status,
                   provVars, imgVars, exitStatus, trace, failedAt, q>>

\* lines 509-512: UefiMain returns the status to its invoker
UefiMainReturn ==
    /\ pc = "ret"
    /\ exitStatus' = Status
    /\ pc' = "exited"
    /\ UNCHANGED <<envVars, mainVars, heap, handles, findVars, lf, bufVars, Status,
                   provVars, imgVars, failedAt, trace, q>>

----------------------------------------------------------------------------
(* The Ramdisk Media Provider: InitrdLoadFile, lines 115-143. *)

\* CopyMem(Buffer, src, n)
CopyMem(Buffer, src, n) ==
    [k \in 1..Len(Buffer) |-> IF k <= n THEN src[k] ELSE Buffer[k]]

\* mutant of InitrdLoadFile: a buffer of exactly the ramdisk's size is refused
InitrdLoadFile_OffByOne(Ctx, src, a) ==
    IF ~a.HasSize
    THEN [Status |-> EFI_INVALID_PARAMETER, BufferSize |-> a.InSize,
          Buffer |-> a.Buffer, Ctx |-> Ctx]
    ELSE IF Ctx.InitrdBuffer = NULL \/ Ctx.InitrdSize = 0
    THEN [Status |-> EFI_NOT_FOUND, BufferSize |-> a.InSize,
          Buffer |-> a.Buffer, Ctx |-> Ctx]
    ELSE IF ~a.HasBuffer \/ a.InSize <= Ctx.InitrdSize
    THEN [Status |-> EFI_BUFFER_TOO_SMALL, BufferSize |-> Ctx.InitrdSize,
          Buffer |-> a.Buffer, Ctx |-> Ctx]
    ELSE [Status |-> EFI_SUCCESS, BufferSize |-> Ctx.InitrdSize,
          Buffer |-> CopyMem(a.Buffer, src, Ctx.InitrdSize), Ctx |-> Ctx]

\* mutant of InitrdLoadFile: the ramdisk is handed out once, the context is
\* emptied by the call that delivers it
InitrdLoadFile_Consume(Ctx, src, a) ==
    IF ~a.HasSize
    THEN [Status |-> EFI_INVALID_PARAMETER, BufferSize |-> a.InSize,
          Buffer |-> a.Buffer, Ctx |-> Ctx]
    ELSE IF Ctx.InitrdBuffer = NULL \/ Ctx.InitrdSize = 0
    THEN [Status |-> EFI_NOT_FOUND, BufferSize |-> a.InSize,
          Buffer |-> a.Buffer, Ctx |-> Ctx]
    ELSE IF ~a.HasBuffer \/ a.InSize < Ctx.InitrdSize
    THEN [Status |-> EFI_BUFFER_TOO_SMALL, BufferSize |-> Ctx.InitrdSize,
          Buffer |-> a.Buffer, Ctx |-> Ctx]
    ELSE [Status |-> EFI_SUCCESS, BufferSize |-> Ctx.InitrdSize,
          Buffer |-> CopyMem(a.Buffer, src, Ctx.InitrdSize),
          Ctx |-> [Ctx EXCEPT !.InitrdBuffer = NULL, !.InitrdSize = 0]]

\* One call.  a is the caller's arguments: HasSize (BufferSize # NULL), InSize
\* (*BufferSize on entry), HasBuffer (Buffer # NULL) and Buffer (the caller's
\* memory); src is the memory at Ctx->InitrdBuffer.  The result is the status,
\* *BufferSize and the caller's memory on return, and the context the call leaves.
InitrdLoadFile(Ctx, src, a) ==
    IF ~a.HasSize
    THEN [Status |-> EFI_INVALID_PARAMETER, BufferSize |-> a.InSize,
          Buffer |-> a.Buffer, Ctx |-> Ctx]
    ELSE IF Ctx.InitrdBuffer = NULL \/ Ctx.InitrdSize = 0
    THEN [Status |-> EFI_NOT_FOUND, BufferSize |-> a.InSize,
          Buffer |-> a.Buffer, Ctx |-> Ctx]
    ELSE IF ~a.HasBuffer \/ a.InSize < Ctx.InitrdSize
    THEN [Status |-> EFI_BUFFER_TOO_SMALL, BufferSize |-> Ctx.InitrdSize,
          Buffer |-> a.Buffer, Ctx |-> Ctx]
    ELSE [Status |-> EFI_SUCCESS, BufferSize |-> Ctx.InitrdSize,
          Buffer |-> CopyMem(a.Buffer, src, Ctx.InitrdSize), Ctx |-> Ctx]

\* the arguments a caller may pass: a buffer, when there is one, of InSize bytes
QueryArgs ==
    { [HasSize |-> hs, InSize |-> n, HasBuffer |-> hb,
       Buffer |-> IF hb THEN [k \in 1..n |-> Uninit] ELSE <<>>] :
         hs \in BOOLEAN, n \in 0..(MaxFileSize + 1), hb \in BOOLEAN }

\* what a read of freed pool memory may see: the old bytes, or anything else
FreedContents(data) == {data, [k \in 1..Len(data) |-> Uninit]}

\* the memory at mInitrdLf2.InitrdBuffer as a call reads it
ProviderMemory ==
    IF mInitrdLf2.InitrdBuffer = NULL THEN { <<>> }
    ELSE IF heap[mInitrdLf2.InitrdBuffer].state = "allocated"
    THEN { heap[mInitrdLf2.InitrdBuffer].data }
    ELSE FreedContents(heap[mInitrdLf2.InitrdBuffer].data)

DoQuery(a) ==
    \E src \in ProviderMemory :
        LET r == InitrdLoadFile(mInitrdLf2, src, a)
        IN  /\ q' = [called |-> TRUE, HasSize |-> a.HasSize, HasBuffer |-> a.HasBuffer,
                     InSize |-> a.InSize, Status |-> r.Status,
                     BufferSize |-> r.BufferSize, Buffer |-> r.Buffer, src |-> src]
            /\ mInitrdLf2' = r.Ctx

\* The provider's callers in a run of the loader: the kernel's EFI stub during
\* StartImage, or whoever finds the installed protocol after the loader returned.
\* They follow the two calls of the LoadFile2 protocol: first the size is asked
\* for with no buffer, ...
StubProbe ==
    /\ pc \in {"in_kernel", "exited"}
    /\ InitrdHandle
    /\ DoQuery([HasSize |-> TRUE, InSize |-> 0, HasBuffer |-> FALSE, Buffer |-> <<>>])
    /\ UNCHANGED <<pc, envVars, mainVars, heap, handles, findVars, lf, bufVars,
                   Status, InitrdHandle, imgVars, exitStatus, trace, failedAt>>

\* ... then a buffer of the size reported is passed
StubFill ==
    /\ pc \in {"in_kernel", "exited"}
    /\ InitrdHandle
    /\ q.called /\ q.Status = EFI_BUFFER_TOO_SMALL
    /\ DoQuery([HasSize |-> TRUE, InSize |-> q.BufferSize, HasBuffer |-> TRUE,
                Buffer |-> [k \in 1..q.BufferSize |-> Uninit]])
    /\ UNCHANGED <<pc, envVars, mainVars, heap, handles, findVars, lf, bufVars,
                   Status, InitrdHandle, imgVars, exitStatus, trace, failedAt>>

----------------------------------------------------------------------------
(* The loader: every run of UefiMain, with the provider's callers. *)

Next ==
    \/ UefiMainSelect
    \/ FindLocate \/ FindProbe \/ FindExhausted
    \/ LocateVolumeCheck
    \/ LfOpen \/ LfGetInfoSize \/ LfAllocInfo \/ LfGetInfo \/ LfAllocBuffer \/ LfRead
    \/ KernelLoadCheck \/ InitrdDecide \/ InitrdLoadCheck \/ CloseRoot
    \/ RegisterInitrd \/ BuildKernelDp \/ LoadImage \/ GetKernelLoadedImage
    \/ SetCmdline \/ StartImage \/ KernelReturns \/ KernelTakesOver
    \/ UefiMainReturn
    \/ StubProbe \/ StubFill

Spec == Init /\ [][Next]_vars

----------------------------------------------------------------------------
(* The Boot Policy Selector alone, over every hint. *)

InitPolicy ==
    /\ pc = "main"
    /\ hint \in AllHints
    /\ volumes = <<>>
    /\ fileLen = [kernel |-> 0, initrd |-> -1]
    /\ mInitrdLf2 = ZeroCtx /\ InitrdHandle = FALSE
    /\ InitLocals

NextPolicy == UefiMainSelect

SpecPolicy == InitPolicy /\ [][NextPolicy]_vars

----------------------------------------------------------------------------
(* The Ramdisk Media Provider alone: InitrdLoadFile called, any number of   *)
(* times, on the context as it is before registration (zeroed) and as       *)
(* RegisterInitrd leaves it (an M-byte ramdisk, M > 0, in an allocated      *)
(* buffer).                                                                 *)

RegisteredCtx(M) ==
    [LoadFile |-> "InitrdLoadFile", InitrdBuffer |-> 1, InitrdSize |-> M]

RamdiskHeap(vol, M) ==
    << [tag |-> "initrd", state |-> "allocated", frees |-> 0,
        data |-> FileBytes(vol, INITRD_PATH, M)] >>

InitQuery ==
    /\ pc = "provider"
    /\ hint \in {[Li |-> TRUE, LoadOptions |-> NullOptions, LoadOptionsSize |-> 0]}
    /\ volumes = <<>>
    /\ fileLen = [kernel |-> 0, initrd |-> -1]
    /\ \/ mInitrdLf2 = ZeroCtx /\ InitrdHandle = FALSE /\ InitLocals
       \/ \E M \in 1..MaxFileSize, vol \in 1..MaxHandles :
            /\ mInitrdLf2 = RegisteredCtx(M)
            /\ InitrdHandle = TRUE
            /\ NetBoot = FALSE /\ Cmdline = KernelCmdline /\ UseInitrd = TRUE
            /\ heap = RamdiskHeap(vol, M) /\ handles = <<>>
            /\ HandleBuffer = NULL /\ Index = 0 /\ Root = NULL
            /\ lf = NoFrame
            /\ KernelBuffer = NULL /\ KernelSize = 0
            /\ InitrdBuffer = 1 /\ InitrdSize = M
            /\ Status = EFI_SUCCESS
            /\ KernelDp = ZeroDp /\ KernelHandle = NoImage
            /\ exitStatus = "none" /\ failedAt = "none" /\ trace = <<>>
            /\ q = NoQuery

DirectQuery ==
    /\ pc = "provider"
    /\ \E a \in QueryArgs : DoQuery(a)
    /\ UNCHANGED <<pc, envVars, mainVars, heap, handles, findVars, lf, bufVars,
                   Status, InitrdHandle, imgVars, exitStatus, trace, failedAt>>

NextQuery == DirectQuery

SpecQuery == InitQuery /\ [][NextQuery]_vars

----------------------------------------------------------------------------
(* The descriptor construction alone, lines 427-445: KernelDp built for every *)
(* pointer in KernelBuffer and every KernelSize.  Line 439 converts the       *)
(* pointer as it is, and LoadFileToBuffer may return NULL for an empty file   *)
(* (AllocatedPointers), so NULL is among the pointers, with KernelSize 0.     *)

\* the pool pointers: NULL and one per PoolStride bytes of the address space
PoolPointers == 0..((AddrModulus \div PoolStride) - 1)

InitDp ==
    /\ pc = "build_dp"
    /\ hint \in {[Li |-> TRUE, LoadOptions |-> NullOptions, LoadOptionsSize |-> 0]}
    /\ volumes = <<"kernel">>
    /\ fileLen \in [kernel : 0..MaxFileSize, initrd : {-1}]
    /\ mInitrdLf2 = ZeroCtx /\ InitrdHandle = FALSE
    /\ NetBoot = FALSE /\ Cmdline = KernelCmdline /\ UseInitrd = TRUE
    /\ heap = <<>> /\ handles = <<>>
    /\ HandleBuffer = NULL /\ Index = 0 /\ Root = NULL
    /\ lf = NoFrame
    /\ KernelBuffer \in PoolPointers
    /\ KernelSize = fileLen.kernel
    /\ KernelBuffer = NULL => KernelSize = 0
    /\ InitrdBuffer = NULL /\ InitrdSize = 0
    /\ Status = EFI_SUCCESS
    /\ KernelDp = ZeroDp /\ KernelHandle = NoImage
    /\ exitStatus = "none" /\ failedAt = "none"
    /\ trace = SubSeq(StepOrder, 1, 4)
    /\ q = NoQuery

NextDp == BuildKernelDp

SpecDp == InitDp /\ [][NextDp]_vars

----------------------------------------------------------------------------
(* Properties. *)

\* the buffers LoadAndStartKernelFromAnyFs holds are freed, the roots are closed
BuffersFreed ==
    \A p \in DOMAIN heap : heap[p].tag \in {"kernel", "initrd"} => heap[p].state = "freed"

RootsClosed ==
    \A f \in DOMAIN handles : handles[f].path = ROOT_PATH => handles[f].closes >= 1

\* C1: whenever LoadAndStartKernelFromAnyFs returns because one of the steps locate
\* volume, load kernel, register provider, LoadImage or obtaining the kernel's
\* loaded-image interface failed, the kernel buffer and the ramdisk buffer are
\* freed and the filesystem root is closed.
C1_FailureUnwindsAll ==
    (pc = "ret"
       /\ failedAt \in {"locate", "kernel", "register", "loadimage", "loadedimage"})
    => (BuffersFreed /\ RootsClosed)

\* LocateHandleBuffer returned the list of handles (an empty list is EFI_NOT_FOUND)
Enumerated == HandleBuffer # NULL \/ Len(volumes) = 0

\* position of the first handle whose volume opens and holds the kernel
FirstKernel(vs) ==
    CHOOSE i \in 1..Len(vs) : vs[i] = "kernel" /\ \A j \in 1..(i - 1) : vs[j] # "kernel"

\* C2: when some enumerated handle's volume opens and holds the kernel path,
\* FindBootFileSystem returns EFI_SUCCESS with the open root of the first such
\* handle; that root is the only file protocol instance left open, every root
\* opened for an earlier handle and the probe file were closed (once), and no
\* handle after the match was probed.
C2_LocatorFindsFirst ==
    (pc = "find_ret" /\ Enumerated /\ HasKernelVolume(volumes))
    => /\ Status = EFI_SUCCESS
       /\ Root # NULL
       /\ handles[Root].vol = FirstKernel(volumes)
       /\ handles[Root].path = ROOT_PATH
       /\ \A f \in DOMAIN handles :
            /\ handles[f].vol <= FirstKernel(volumes)
            /\ IF f = Root THEN handles[f].closes = 0 ELSE handles[f].closes = 1
       /\ \E f \in DOMAIN handles :
            handles[f].path = KERNEL_PATH /\ handles[f].vol = FirstKernel(volumes)
       /\ Index + 1 = FirstKernel(volumes)

\* a match after a rejected root and before handles that are never probed
C2_Witness ==
    /\ pc = "find_ret"
    /\ volumes = <<"nokernel", "kernel", "kernel">>
    /\ Status = EFI_SUCCESS
    /\ Len(handles) = 3

\* C3: when no enumerated handle holds the kernel path (its SimpleFS interface or
\* OpenVolume may fail as well), FindBootFileSystem returns EFI_NOT_FOUND, gives
\* no root to the caller and leaves no root open.
C3_LocatorNotFound ==
    (pc = "find_ret" /\ Enumerated /\ ~HasKernelVolume(volumes))
    => /\ Status = EFI_NOT_FOUND
       /\ Root = NULL
       /\ \A f \in DOMAIN handles : handles[f].closes = 1

\* every kind of handle that does not hold the kernel was probed
C3_Witness ==
    /\ pc = "find_ret"
    /\ volumes = <<"noproto", "nokernel", "openfail">>
    /\ HandleBuffer # NULL
    /\ Len(handles) = 1

\* the caller's memory as it was passed to the last call of InitrdLoadFile
PassedBuffer == IF q.HasBuffer THEN [k \in 1..q.InSize |-> Uninit] ELSE <<>>

\* the three cases of the provider, on the last call and the context it found
ThreeCases ==
    LET M == mInitrdLf2.InitrdSize
    IN  IF mInitrdLf2.InitrdBuffer = NULL \/ M = 0
        THEN q.Status = EFI_NOT_FOUND
        ELSE IF ~q.HasBuffer \/ q.InSize < M
        THEN /\ q.Status = EFI_BUFFER_TOO_SMALL
             /\ q.BufferSize = M
             /\ q.Buffer = PassedBuffer
        ELSE /\ q.Status = EFI_SUCCESS
             /\ q.BufferSize = M
             /\ \A k \in 1..Len(q.Buffer) :
                  q.Buffer[k] = IF k <= M THEN heap[mInitrdLf2.InitrdBuffer].data[k]
                                ELSE PassedBuffer[k]

\* C4 as claimed: every call of InitrdLoadFile is answered by one of the three
\* cases: NotFound on an empty context; else BufferTooSmall with size M and the
\* caller's buffer untouched when there is no buffer or the size passed is below M;
\* else success with size M and exactly the M stored bytes copied.
C4_ThreeCasesOnly == q.called => ThreeCases

\* C4, amended: a call that passes no size pointer (BufferSize = NULL) fails with
\* InvalidParameter whatever the context, writing nothing; every call that passes
\* one is answered by the three cases.
C4_ThreeCasesGivenSize ==
    q.called =>
        IF ~q.HasSize
        THEN /\ q.Status = EFI_INVALID_PARAMETER
             /\ q.Buffer = PassedBuffer
             /\ q.BufferSize = q.InSize
        ELSE ThreeCases

\* a buffer larger than the ramdisk received exactly the M stored bytes
C4_Witness ==
    /\ q.called /\ q.HasSize
    /\ q.Status = EFI_SUCCESS
    /\ q.InSize > mInitrdLf2.InitrdSize
    /\ mInitrdLf2.InitrdSize = MaxFileSize

\* C5: a call of InitrdLoadFile leaves the provider context and the stored ramdisk
\* bytes as they were, and a call with the arguments of the call before it returns
\* the same status, size and bytes.
C5_QueryDoesNotConsume ==
    [][ /\ mInitrdLf2' = mInitrdLf2
        /\ heap' = heap
        /\ (q.called /\ q'.HasSize = q.HasSize /\ q'.InSize = q.InSize
              /\ q'.HasBuffer = q.HasBuffer) => q' = q ]_vars

\* the ramdisk was delivered and the context still holds it
C5_Witness ==
    /\ q.called
    /\ q.Status = EFI_SUCCESS
    /\ mInitrdLf2.InitrdSize = MaxFileSize
    /\ heap[mInitrdLf2.InitrdBuffer].state = "allocated"
    /\ q.Buffer = heap[mInitrdLf2.InitrdBuffer].data

\* C6: when File->Read delivered fewer bytes than the file size that was queried and
\* allocated for, LoadFileToBuffer returns an error; it never returns success with
\* a length below that size.
C6_ShortReadIsError ==
    (pc = "lf_ret" /\ lf.Read >= 0)
    => /\ lf.Read < heap[lf.FileInfo].data[1] => EFI_ERROR(Status)
       /\ Status = EFI_SUCCESS => OutSize = heap[lf.FileInfo].data[1]

\* C7: on every error return of LoadFileToBuffer after the file was opened, the file
\* was closed exactly once, the file-info buffer and the file buffer (where they
\* were allocated) are freed, and the caller's *Buffer is NULL.
C7_ErrorReturnReleases ==
    (pc = "lf_ret" /\ EFI_ERROR(Status) /\ lf.File # NULL)
    => /\ handles[lf.File].closes = 1
       /\ \A p \in DOMAIN heap :
            (lf.FileInfo # NULL /\ p >= lf.FileInfo)
            => (heap[p].state = "freed" /\ heap[p].frees = 1)
       /\ OutBuffer = NULL

\* the read failed after both buffers had been allocated
C7_Witness ==
    /\ pc = "lf_ret" /\ EFI_ERROR(Status)
    /\ lf.Read >= 0
    /\ lf.call = "initrd"
    /\ \E p \in DOMAIN heap : heap[p].tag = "initrd"

\* C8: when every call of the firmware succeeds and Read delivers the whole file,
\* LoadFileToBuffer returns EFI_SUCCESS with *BufferSize = N, the size of the file,
\* and an allocated buffer of N bytes that holds the file's bytes; N may be 0,
\* and then the buffer may be NULL.
C8_LoadRoundTrip ==
    LET N == FileSizeOn(handles[lf.File].vol, LfPath)
    IN  (pc = "lf_ret" /\ lf.Status = EFI_SUCCESS /\ lf.Read = N)
        => /\ Status = EFI_SUCCESS
           /\ OutSize = N
           /\ OutBuffer = NULL => N = 0
           /\ OutBuffer # NULL =>
                /\ heap[OutBuffer].state = "allocated"
                /\ heap[OutBuffer].data = FileBytes(handles[lf.File].vol, LfPath, N)

\* a kernel of the largest size was loaded from the second volume
C8_Witness ==
    /\ pc = "lf_ret" /\ Status = EFI_SUCCESS
    /\ lf.call = "kernel"
    /\ handles[lf.File].vol = 2
    /\ KernelSize = MaxFileSize
    /\ fileLen.kernel = MaxFileSize

\* the text of a hint: the characters before the first NUL
HintText(h) == SubSeq(h.LoadOptions.Chars, 1, StrLen(h.LoadOptions.Chars))

\* the marker BOOT=PXE occurs in text t
HasMarker(t) ==
    \E i \in 1..Len(t) :
        /\ i + 7 <= Len(t)
        /\ SubSeq(t, i, i + 7) = <<"B", "O", "O", "T", "=", "P", "X", "E">>

\* the hint is there (the loaded-image interface and its LoadOptions), is not empty
\* (at least one CHAR16) and contains the marker
NetworkHint(h) ==
    /\ h.Li /\ ~h.LoadOptions.IsNull
    /\ h.LoadOptionsSize >= SizeofChar16
    /\ HasMarker(HintText(h))

\* C9: the decision of UefiMain is {network command line, no ramdisk} exactly when
\* the hint is present, non-empty and contains BOOT=PXE, and {local command line,
\* ramdisk} in every other case.
C9_PolicySelection ==
    pc # "main" =>
        IF NetworkHint(hint)
        THEN NetBoot /\ Cmdline = KernelCmdlineNfs /\ UseInitrd = FALSE
        ELSE ~NetBoot /\ Cmdline = KernelCmdline /\ UseInitrd = TRUE

\* the hint "BOOT=PXE extra=1" selected the network policy
C9_Witness ==
    /\ pc = "find"
    /\ HintText(hint) = <<"B", "O", "O", "T", "=", "P", "X", "E">>
                          \o <<" ", "e", "x", "t", "r", "a", "=", "1">>
    /\ NetBoot /\ Cmdline = KernelCmdlineNfs /\ ~UseInitrd

\* C10: under the network policy the ramdisk file is never opened or read, no
\* ramdisk buffer is allocated and the provider is never registered, whether or not
\* the boot volume holds a ramdisk file.
C10_NetworkSkipsRamdisk ==
    (pc # "main" /\ NetBoot)
    => /\ \A f \in DOMAIN handles : handles[f].path # INITRD_PATH
       /\ \A p \in DOMAIN heap : heap[p].tag # "initrd"
       /\ InitrdBuffer = NULL /\ InitrdSize = 0
       /\ mInitrdLf2 = ZeroCtx
       /\ ~InitrdHandle

\* the kernel was started under the network policy from a volume that has a ramdisk
C10_Witness ==
    /\ pc = "in_kernel"
    /\ NetBoot
    /\ fileLen.initrd > 0
    /\ KernelHandle.loaded

----------------------------------------------------------------------------
(* The Orchestrator: LoadAndStartKernelFromAnyFs as a sequence of steps. *)

\* the steps entered when the step named failed
StepsUntil(step) ==
    CASE step = "locate"      -> SubSeq(StepOrder, 1, 1)
      [] step = "kernel"      -> SubSeq(StepOrder, 1, 2)
      [] step = "register"    -> SubSeq(StepOrder, 1, 4)
      [] step = "loadimage"   -> SubSeq(StepOrder, 1, 6)
      [] step = "loadedimage" -> SubSeq(StepOrder, 1, 6)
      [] step = "start"       -> StepOrder
      [] OTHER                -> <<>>

\* control is inside LoadFileToBuffer, or at its return before the caller's check
InLoadFile ==
    pc \in {"lf_open", "lf_getinfo_size", "lf_alloc_info", "lf_getinfo",
            "lf_alloc_buf", "lf_read", "lf_ret"}

\* under the local policy the ramdisk was asked for (line 387) and LoadFileToBuffer
\* returned an error, which the Orchestrator has seen
RamdiskLoadFailed ==
    ~NetBoot /\ lf.call = "initrd" /\ EFI_ERROR(lf.Status) /\ ~InLoadFile

\* the bytes of the kernel file on the volume FindBootFileSystem located, as far
\* as LoadFileToBuffer reported them read
LocatedKernelBytes ==
    SubSeq(FileBytes(FirstKernel(volumes), KERNEL_PATH, fileLen.kernel), 1, KernelSize)

\* C11: under the local policy a failure of the ramdisk load (the file is absent,
\* the size query, the allocation or the read fails) does not end the run: no
\* provider is registered and the context is untouched, the run returns no
\* earlier than from the image-load step, the image LoadImage accepts holds the
\* kernel bytes of the located volume, and the command line set is the local
\* one.  A failure of any other step ends the run with the steps after it not
\* entered, and its error status is what UefiMain returns.
C11_RamdiskFailureIsNotFatal ==
    /\ RamdiskLoadFailed =>
         /\ InitrdBuffer = NULL /\ InitrdSize = 0
         /\ ~InitrdHandle /\ mInitrdLf2 = ZeroCtx
         /\ pc \in {"ret", "exited"} =>
               /\ failedAt \in {"loadimage", "loadedimage", "start"}
               /\ Len(trace) >= 6
         /\ KernelHandle.loaded =>
               /\ KernelSize >= 1
               /\ KernelHandle.bytes = LocatedKernelBytes
         /\ pc \in {"start_image", "in_kernel", "booted"} =>
               /\ KernelHandle.LoadOptions = KernelCmdline
               /\ KernelHandle.LoadOptionsSize = (Len(KernelCmdline) + 1) * SizeofChar16
    /\ (pc \in {"ret", "exited"}
          /\ failedAt \in {"locate", "kernel", "register", "loadimage", "loadedimage"}) =>
         /\ EFI_ERROR(Status)
         /\ failedAt = "kernel" => Status = lf.Status
         /\ trace = StepsUntil(failedAt)
         /\ pc = "exited" => exitStatus = Status

\* three volumes, the kernel on the second only and no ramdisk file: the image is
\* loaded from the second volume's bytes and the local command line is set
C11_Witness ==
    /\ volumes = <<"nokernel", "kernel", "nokernel">>
    /\ fileLen.initrd = -1
    /\ RamdiskLoadFailed /\ lf.Status = EFI_NOT_FOUND
    /\ pc = "start_image"
    /\ KernelHandle.bytes = FileBytes(2, KERNEL_PATH, MaxFileSize)
    /\ KernelHandle.LoadOptions = KernelCmdline

\* C12: whenever UefiMain returns a status to its invoker, the status is an error:
\* EFI_SUCCESS is never returned, also not when StartImage comes back with it.
C12_ReturnIsFailure ==
    pc = "exited" => EFI_ERROR(exitStatus)

\* the descriptor is built: BuildKernelDp has acted
DescriptorBuilt == pc = "load_image" /\ Len(trace) = 5

\* C13: for every kernel buffer address A and length L the descriptor built has a
\* memory-range record (hardware type, memory-mapped subtype) that starts at A
\* and ends at A + L - 1 in the arithmetic of EFI_PHYSICAL_ADDRESS: the address
\* after the ending address is A + L, and for a buffer that is not empty the
\* ending address is the address of its last byte; its length field holds the
\* size of the memory-range record, low byte first; the terminator record
\* follows with the size of a bare record in its length field, whatever A and L.
C13_DescriptorLayout ==
    DescriptorBuilt =>
      LET A == PoolAddress(KernelBuffer)
          L == KernelSize
          R == KernelDp.MemMap
          E == KernelDp.End
      IN  /\ R.Type = HARDWARE_DEVICE_PATH /\ R.SubType = HW_MEMMAP_DP
          /\ R.StartingAddress = A
          /\ R.EndingAddress \in 0..(AddrModulus - 1)
          /\ (R.EndingAddress + 1) % AddrModulus = (A + L) % AddrModulus
          /\ L >= 1 => R.EndingAddress = A + L - 1
          /\ R.Length[1] \in 0..255 /\ R.Length[2] \in 0..255
          /\ R.Length[1] + 256 * R.Length[2] = SizeofMemMapDevicePath
          /\ E.Type = END_DEVICE_PATH_TYPE /\ E.SubType = END_ENTIRE_DEVICE_PATH_SUBTYPE
          /\ E.Length = <<SizeofDevicePathProtocol, 0>>

\* a buffer of the largest length at the highest pool address
C13_Witness ==
    /\ DescriptorBuilt
    /\ KernelBuffer = (AddrModulus \div PoolStride) - 1
    /\ KernelSize = MaxFileSize
    /\ KernelDp.MemMap.EndingAddress = PoolAddress(KernelBuffer) + MaxFileSize - 1

\* C18 as claimed: for a buffer of length 0 the ending address of the descriptor
\* is below its starting address, whatever the buffer's address, NULL included.
C18_EmptyEndsBelowStart ==
    (DescriptorBuilt /\ KernelSize = 0)
    => KernelDp.MemMap.EndingAddress < KernelDp.MemMap.StartingAddress

\* C18 as amended: for a buffer of length 0 at an address A that is not 0 the
\* ending address is A - 1, below the starting address; for the NULL buffer the
\* sum A + (L - 1) wraps to the highest address, above the starting address 0.
C18_EmptyEndsBelowStartUnlessNull ==
    (DescriptorBuilt /\ KernelSize = 0)
    => LET R == KernelDp.MemMap
       IN  IF KernelBuffer # NULL
           THEN /\ R.StartingAddress = PoolAddress(KernelBuffer)
                /\ R.StartingAddress > 0
                /\ R.EndingAddress = R.StartingAddress - 1
           ELSE /\ R.StartingAddress = 0
                /\ R.EndingAddress = AddrModulus - 1

\* the kernel file is empty and its buffer was allocated
C18_Witness ==
    /\ DescriptorBuilt
    /\ fileLen.kernel = 0 /\ KernelSize = 0
    /\ KernelBuffer # NULL
    /\ KernelDp.MemMap.EndingAddress = PoolAddress(KernelBuffer) - 1

\* what step k of StepOrder needs of the step before it: the volume located, the
\* kernel loaded, the ramdisk loaded or skipped, the provider registered or
\* omitted, the descriptor built, the image loaded, the command line set
PredecessorSucceeded(k) ==
    CASE k = 1 -> pc = "find"
      [] k = 2 -> Status = EFI_SUCCESS /\ Root # NULL
      [] k = 3 -> Status = EFI_SUCCESS /\ lf.call = "kernel" /\ lf.Status = EFI_SUCCESS
      [] k = 4 -> IF UseInitrd THEN lf.call = "initrd" ELSE lf.call = "kernel"
      [] k = 5 -> InitrdHandle \/ InitrdSize = 0
      [] k = 6 -> KernelDp # ZeroDp
      [] k = 7 -> Status = EFI_SUCCESS /\ KernelHandle.loaded
      [] k = 8 -> KernelHandle.LoadOptions = Cmdline
      [] OTHER -> FALSE

\* C14: a step is entered only as the next one of the order locate volume, load
\* kernel, load or skip ramdisk, register or omit provider, build descriptor,
\* load image, set command line, start image (so each at most once), only when
\* the step before it has succeeded and no step has failed; the provider is
\* installed in the register step, before the image is loaded; the image is
\* loaded in the load-image step; the command line is written to a loaded image
\* in the set-command-line step; control passes to the image after all eight.
C14_StrictStepOrder ==
    [][ /\ trace' # trace =>
            /\ Len(trace) < Len(StepOrder)
            /\ trace' = Append(trace, StepOrder[Len(trace) + 1])
            /\ failedAt = "none" /\ pc \notin {"ret", "exited"}
            /\ PredecessorSucceeded(Len(trace) + 1)
        /\ (InitrdHandle' /\ ~InitrdHandle) =>
            (trace' = SubSeq(StepOrder, 1, 4) /\ ~KernelHandle'.loaded)
        /\ (KernelHandle'.loaded /\ ~KernelHandle.loaded) =>
            trace' = SubSeq(StepOrder, 1, 6)
        /\ KernelHandle'.LoadOptions # KernelHandle.LoadOptions =>
            (KernelHandle.loaded /\ trace' = SubSeq(StepOrder, 1, 7))
        /\ (pc' = "in_kernel" /\ pc # "in_kernel") =>
            (trace' = StepOrder /\ KernelHandle.loaded
               /\ KernelHandle.LoadOptions = Cmdline)
      ]_vars

\* a run with a ramdisk that went through all eight steps
C14_Witness ==
    /\ pc = "in_kernel"
    /\ trace = StepOrder
    /\ InitrdHandle /\ KernelHandle.loaded

\* C15: the root FindBootFileSystem returned stays open while LoadFileToBuffer is
\* called on it for the kernel and the ramdisk, so no file is opened on a closed
\* root; it is closed once, by the failure return of the kernel load or after the
\* reads, and is closed (once, never twice) when the provider is registered, the
\* image is loaded and whenever LoadAndStartKernelFromAnyFs returns.
C15_RootClosedOnce ==
    Root # NULL =>
      /\ handles[Root].path = ROOT_PATH
      /\ handles[Root].closes <= 1
      /\ (InLoadFile \/ pc \in {"find_ret", "initrd", "close_root"}) =>
            handles[Root].closes = 0
      /\ pc \in {"register", "build_dp", "load_image", "loaded_image", "set_cmdline",
                  "start_image", "in_kernel", "booted", "ret", "exited"} =>
            handles[Root].closes = 1
      /\ \A f \in DOMAIN handles :
            (f > Root /\ handles[f].closes = 0) => (InLoadFile /\ f = lf.File)

\* the kernel load failed after the root had been handed over
C15_Witness ==
    /\ pc = "ret" /\ failedAt = "kernel"
    /\ Root # NULL
    /\ handles[Root].closes = 1
    /\ Len(handles) > Root + 1

\* C16: the provider context changes only in the register step, from its zeroed
\* state and while nothing is installed (so it is written at most once, and
\* before the provider is installed); the provider is installed with the context
\* written; once it is installed no step of the loader, no failure return and no
\* query changes the context's buffer pointer or length.
C16_ContextWrittenOnce ==
    [][ /\ mInitrdLf2' # mInitrdLf2 =>
            /\ pc = "register" /\ ~InitrdHandle
            /\ mInitrdLf2 = ZeroCtx
            /\ mInitrdLf2' = [LoadFile |-> "InitrdLoadFile",
                              InitrdBuffer |-> InitrdBuffer, InitrdSize |-> InitrdSize]
        /\ (InitrdHandle' /\ ~InitrdHandle) => mInitrdLf2' # ZeroCtx
        /\ InitrdHandle =>
            /\ InitrdHandle'
            /\ mInitrdLf2'.InitrdBuffer = mInitrdLf2.InitrdBuffer
            /\ mInitrdLf2'.InitrdSize = mInitrdLf2.InitrdSize
      ]_vars

\* LoadImage failed after the provider was installed, and the provider was asked
C16_Witness ==
    /\ pc = "exited" /\ failedAt = "loadimage"
    /\ InitrdHandle
    /\ mInitrdLf2.InitrdBuffer = InitrdBuffer /\ mInitrdLf2.InitrdSize = InitrdSize
    /\ InitrdSize > 0
    /\ q.called

\* C17: no run builds the descriptor, or calls LoadImage, for a kernel of length 0.
C17_ZeroKernelRejected ==
    Len(trace) >= 5 => KernelSize > 0

\* C19: while the provider is installed, the buffer its context points to is
\* allocated.
C19_RegisteredBufferAllocated ==
    InitrdHandle =>
      /\ mInitrdLf2.InitrdBuffer # NULL
      /\ heap[mInitrdLf2.InitrdBuffer].state = "allocated"

\* the ramdisk was asked for and LoadFileToBuffer returned it, with this length
RamdiskLoaded(n) ==
    lf.call = "initrd" /\ lf.Status = EFI_SUCCESS /\ ~InLoadFile /\ InitrdSize = n

\* C20: once the register step is done, the provider is installed (or the run
\* ended because the runtime refused to install it) exactly when the policy is
\* local and the ramdisk was loaded with a length above 0; a ramdisk loaded with
\* length 0 is not registered, the context stays zeroed and the run goes on to
\* LoadImage; an installed provider has a buffer and a length above 0 in its
\* context and answers no query with EFI_NOT_FOUND.
C20_RegisteredIffRamdisk ==
    /\ Len(trace) >= 4 =>
         /\ (InitrdHandle \/ failedAt = "register")
               <=> (~NetBoot /\ \E n \in 1..MaxFileSize : RamdiskLoaded(n))
         /\ InitrdHandle => failedAt # "register"
         /\ RamdiskLoaded(0) =>
               /\ ~InitrdHandle /\ mInitrdLf2 = ZeroCtx
               /\ pc \in {"ret", "exited"} => Len(trace) >= 6
    /\ Len(trace) < 4 => ~InitrdHandle
    /\ InitrdHandle =>
         /\ mInitrdLf2.InitrdBuffer # NULL /\ mInitrdLf2.InitrdSize > 0
         /\ q.called => q.Status # EFI_NOT_FOUND

\* an empty ramdisk file was loaded into an allocated buffer, and the boot went on
C20_Witness ==
    /\ pc = "start_image"
    /\ fileLen.initrd = 0
    /\ RamdiskLoaded(0) /\ InitrdBuffer # NULL
    /\ ~InitrdHandle

====
